---- MODULE Spec2Model ----
(***************************************************************************)
(* A model of envtpl (src/envtpl.py) and renvtpl (src/renvtpl.py).         *)
(*                                                                         *)
(* Texts are sequences of one-character strings.  A template source is a   *)
(* sequence of items: literal characters, and variable references          *)
(* "{{X}}" that the template engine replaces by the variable's value.      *)
(*                                                                         *)
(* Four specifications share the module:                                   *)
(*   SpecRender  one call of _render on a bounded template                 *)
(*   SpecFile    one run of main / process_file (single-file mode)         *)
(*   SpecEnv     render_string's variable collection and the environment() *)
(*               template helper                                           *)
(*   SpecWalk    one run of renvtpl's main (the directory walker)          *)
(***************************************************************************)
EXTENDS Naturals, Sequences, FiniteSets, TLC

VARIABLES
    pc,                      \* position of the running program
    \* ---- _render
    source,                  \* template source handed to the loader
    variables,               \* mapping name -> text given to template.render
    die_on_missing_variable, \* undefined-variable policy (TRUE: strict)
    keep_multi_blank_lines,  \* FALSE: collapse blank lines
    result,                  \* what the call returned or raised
    \* ---- main / process_file
    args,                    \* parsed command line
    input_filename, output_filename, remove_template,
    fs,                      \* files on disk: name -> content
    fs0,                     \* the files as they were when the run began
    stdin, stdout,
    written,                 \* destinations written so far, in order
    raised,                  \* the exception in flight
    exit_code,
    \* ---- render_string and the environment() helper
    os_environ,              \* the process environment
    environ0,                \* the process environment before the call
    extra_variables,
    context,                 \* the template's context: name -> value
    yielded,                 \* what the last environment(prefix) call gave
    prefix,                  \* the prefix of that call
    n_sets,                  \* assignments the template has made
    \* ---- renvtpl
    wargs,                   \* renvtpl's parsed command line
    disk_dirs,               \* directories on disk (absolute paths)
    disk_files,              \* files on disk: path -> bytes
    disk0_dirs, disk0_files, \* the disk before the run
    todo,                    \* directories os.walk has yet to yield
    root,                    \* the directory os.walk yielded last
    dirs_left, files_left,   \* what the two loops have yet to handle
    processed,               \* source files handled so far, in order
    errors                   \* exceptions and errors reported, in order

vars == <<pc, source, variables, die_on_missing_variable,
          keep_multi_blank_lines, result, args, input_filename,
          output_filename, remove_template, fs, fs0, stdin, stdout,
          written, raised, exit_code, os_environ, environ0,
          extra_variables, context, yielded, prefix, n_sets, wargs,
          disk_dirs, disk_files, disk0_dirs, disk0_files, todo, root,
          dirs_left, files_left, processed, errors>>

renderVars == <<source, variables, die_on_missing_variable,
                keep_multi_blank_lines, result>>
fileVars == <<args, input_filename, output_filename, remove_template, fs,
              fs0, stdin, stdout, written, raised, exit_code>>
envVars == <<os_environ, environ0, extra_variables, context, yielded,
             prefix, n_sets>>
walkVars == <<wargs, disk_dirs, disk_files, disk0_dirs, disk0_files, todo,
              root, dirs_left, files_left, processed, errors>>

-----------------------------------------------------------------------------
(* Bounds *)

\* longest template source drawn in SpecRender
MaxLen == 5

\* assignments ({% set %}) a template makes in SpecEnv
MaxSets == 1

-----------------------------------------------------------------------------
(* Texts *)

NL == "\n"

\* the characters texts are made of: content, the letter s, blank, newline
Chars == {"a", "s", " ", NL}

\* Python's \s on the characters of the model
IsSpace(c) == c \in {" ", NL}

\* the variable names templates refer to
VarNames == {<<"X">>}

RECURSIVE Join(_)
Join(chars) == IF chars = <<>> THEN "" ELSE chars[1] \o Join(Tail(chars))

\* the item {{name}} of a template source
Ref(n) == "{{" \o Join(n) \o "}}"

Refs == {Ref(n) : n \in VarNames}

RefName(item) == CHOOSE n \in VarNames : Ref(n) = item

\* the items of a template source
Items == Chars \cup Refs

\* Python's None where a file name is expected
None == <<"None">>

\* str.endswith
EndsWith(s, suffix) ==
    /\ Len(suffix) <= Len(s)
    /\ SubSeq(s, Len(s) - Len(suffix) + 1, Len(s)) = suffix

\* str.startswith
StartsWith(s, p) ==
    /\ Len(p) <= Len(s)
    /\ SubSeq(s, 1, Len(p)) = p

\* s.split('\n')[-1]: what follows the last newline of s (all of s when
\* it has none)
RECURSIVE LastLine(_)
LastLine(s) ==
    IF s = <<>> THEN <<>>
    ELSE IF s[Len(s)] = NL THEN <<>>
    ELSE Append(LastLine(SubSeq(s, 1, Len(s) - 1)), s[Len(s)])

\* on Python 3 (IS_PYTHON_2 false) the value is returned as is
_unicodify(v) == v

\* sequences over S of length at most n
SeqsUpTo(S, n) == UNION {[1..k -> S] : k \in 0..n}

-----------------------------------------------------------------------------
(* The template engine as _render uses it *)

\* The lexer drops a single trailing newline of the source
\* (keep_trailing_newline is left at its default).
LexerSource(src) ==
    IF src # <<>> /\ src[Len(src)] = NL THEN SubSeq(src, 1, Len(src) - 1)
    ELSE src

\* names a source refers to that the mapping does not define
Missing(src, vs) ==
    {n \in VarNames : (\E i \in 1..Len(src) : src[i] = Ref(n))
                      /\ n \notin DOMAIN vs}

RECURSIVE Expand(_, _)
Expand(src, vs) ==
    IF src = <<>> THEN <<>>
    ELSE LET item == Head(src)
             piece == IF item \in Refs
                      THEN IF RefName(item) \in DOMAIN vs
                           THEN vs[RefName(item)] ELSE <<>>
                      ELSE <<item>>
         IN piece \o Expand(Tail(src), vs)

TemplateRenderLenient(src, vs, strict) ==
    [kind |-> "ok", text |-> Expand(LexerSource(src), vs)]

\* template.render(**variables) under jinja2.StrictUndefined (strict) or
\* jinja2.Undefined
TemplateRender(src, vs, strict) ==
    IF strict /\ Missing(src, vs) # {}
    THEN [kind |-> "UndefinedError", text |-> <<>>]
    ELSE [kind |-> "ok", text |-> Expand(LexerSource(src), vs)]

-----------------------------------------------------------------------------
(* _render's post-processing *)

\* re.sub(r'\n\s*\n', '\n\n', text): leftmost, greedy, non-overlapping.
\* BlankMatchEnd(text, i) is the last position of the match that starts at
\* i, 0 when none starts there.
BlankMatchEnds(text, i) ==
    {j \in (i + 1)..Len(text) :
        /\ text[j] = NL
        /\ \A k \in (i + 1)..(j - 1) : IsSpace(text[k])}

MaxOf(S) == CHOOSE m \in S : \A n \in S : n <= m

MinOf(S) == CHOOSE m \in S : \A n \in S : m <= n

BlankMatchEndLazy(text, i) ==
    IF text[i] = NL /\ BlankMatchEnds(text, i) # {}
    THEN MinOf(BlankMatchEnds(text, i)) ELSE 0

BlankMatchEnd(text, i) ==
    IF text[i] = NL /\ BlankMatchEnds(text, i) # {}
    THEN MaxOf(BlankMatchEnds(text, i)) ELSE 0

RECURSIVE SubBlankFrom(_, _)
SubBlankFrom(text, i) ==
    IF i > Len(text) THEN <<>>
    ELSE IF BlankMatchEnd(text, i) # 0
         THEN <<NL, NL>> \o SubBlankFrom(text, BlankMatchEnd(text, i) + 1)
         ELSE <<text[i]>> \o SubBlankFrom(text, i + 1)

SubBlank(text) == SubBlankFrom(text, 1)

\* re.sub(r'^\ns*\n', '\n', text): the pattern is newline, any number of
\* the letter s, newline, anchored at the start of the text.
RECURSIVE CountS(_, _)
CountS(text, i) ==
    IF i <= Len(text) /\ text[i] = "s" THEN 1 + CountS(text, i + 1) ELSE 0

LeadMatchLen(text) ==
    IF /\ text # <<>>
       /\ text[1] = NL
       /\ CountS(text, 2) + 2 <= Len(text)
       /\ text[CountS(text, 2) + 2] = NL
    THEN CountS(text, 2) + 2 ELSE 0

SubLead(text) ==
    IF LeadMatchLen(text) # 0
    THEN <<NL>> \o SubSeq(text, LeadMatchLen(text) + 1, Len(text))
    ELSE text

\* "jinja2 cuts the last newline"
RepairNewline(src, output) ==
    IF LastLine(src) = <<>> /\ LastLine(output) # <<>>
    THEN Append(output, NL) ELSE output

ReduceBlankLines(output) == SubLead(SubBlank(output))

Normalize(src, output, keep) ==
    IF keep THEN RepairNewline(src, output)
    ELSE ReduceBlankLines(RepairNewline(src, output))

\* lines 241-256: render, repair the newline, collapse blank lines
_render(src, vs, strict, keep) ==
    LET out == TemplateRender(src, vs, strict) IN
    IF out.kind # "ok" THEN [kind |-> "Fatal", text |-> <<>>]
    ELSE [kind |-> "ok", text |-> Normalize(src, out.text, keep)]

NoResult == [kind |-> "none", text |-> <<>>]

-----------------------------------------------------------------------------
(* SpecRender: one call of _render *)

\* values the variable X may carry
Values == {<<>>, <<NL>>, <<"a">>, <<"a", NL>>}

VariableMaps == {<<>>} \cup {[n \in VarNames |-> v] : v \in Values}

NoArgs == [input_file |-> None, output_file |-> None,
           allow_missing |-> FALSE, keep_template |-> FALSE,
           reduce_multi_blank_lines |-> FALSE]

NoException == "no exception"

NotExited == "running"

IdleFile ==
    /\ args = NoArgs
    /\ input_filename = None
    /\ output_filename = None
    /\ remove_template = FALSE
    /\ fs = <<>>
    /\ fs0 = <<>>
    /\ stdin = <<>>
    /\ stdout = <<>>
    /\ written = <<>>
    /\ raised = NoException
    /\ exit_code = NotExited

IdleEnv ==
    /\ os_environ = <<>>
    /\ environ0 = <<>>
    /\ extra_variables = <<>>
    /\ context = <<>>
    /\ yielded = <<>>
    /\ prefix = <<>>
    /\ n_sets = 0

IdleWalk ==
    /\ wargs = <<>>
    /\ disk_dirs = {}
    /\ disk_files = <<>>
    /\ disk0_dirs = {}
    /\ disk0_files = <<>>
    /\ todo = <<>>
    /\ root = <<>>
    /\ dirs_left = <<>>
    /\ files_left = <<>>
    /\ processed = <<>>
    /\ errors = <<>>

InitRender ==
    /\ pc = "call"
    /\ source \in SeqsUpTo(Items, MaxLen)
    /\ variables \in VariableMaps
    /\ die_on_missing_variable \in BOOLEAN
    /\ keep_multi_blank_lines \in BOOLEAN
    /\ result = NoResult
    /\ IdleFile /\ IdleEnv /\ IdleWalk

CallRender ==
    /\ pc = "call"
    /\ result' = _render(source, variables, die_on_missing_variable,
                        keep_multi_blank_lines)
    /\ pc' = "returned"
    /\ UNCHANGED <<source, variables, die_on_missing_variable,
                   keep_multi_blank_lines>>
    /\ UNCHANGED <<fileVars, envVars, walkVars>>

NextRender == CallRender

SpecRender == InitRender /\ [][NextRender]_vars

-----------------------------------------------------------------------------
(* Properties of _render, under SpecRender *)

Returned == pc = "returned" /\ result.kind = "ok"

\* what template.render produced in the call that has returned
Rendered == TemplateRender(source, variables, die_on_missing_variable).text

\* the text handed to the blank-line collapsing (after the newline repair)
Repaired == RepairNewline(source, Rendered)

EndsWithNewline(s) == s # <<>> /\ s[Len(s)] = NL

NonSpace(s) == SelectSeq(s, LAMBDA c : ~IsSpace(c))

\* a run of blank lines longer than a single empty line: two newlines
\* with only (and at least one) whitespace character between them
HasLongBlank(s) ==
    \E i, j \in 1..Len(s) :
        /\ j > i + 1
        /\ s[i] = NL /\ s[j] = NL
        /\ \A k \in (i + 1)..(j - 1) : IsSpace(s[k])

\* a blank line right after a line terminator that follows content
HasBlankAfterContent(s) ==
    \E i, j \in 2..Len(s) :
        /\ j > i
        /\ s[i] = NL /\ s[j] = NL
        /\ \A k \in (i + 1)..(j - 1) : IsSpace(s[k])
        /\ \E k \in 1..(i - 1) : ~IsSpace(s[k])

HasDoubleNewline(s) == \E i \in 1..(Len(s) - 1) : s[i] = NL /\ s[i + 1] = NL

\* the text starts with a run of two or more blank lines whose first line
\* is empty
LeadingRunFromNewline(s) ==
    /\ s # <<>> /\ s[1] = NL
    /\ \E j \in 2..Len(s) :
        s[j] = NL /\ \A k \in 2..(j - 1) : IsSpace(s[k])

\* the first line of the text is blank (whitespace only, and terminated)
StartsWithBlankLine(s) ==
    \E j \in 1..Len(s) : s[j] = NL /\ \A k \in 1..(j - 1) : IsSpace(s[k])

\* C2: when the source ends with a newline and the rendered output (the
\* empty output included) does not, the result is the output plus exactly
\* one newline; otherwise nothing is appended.
C2_TrailingNewlineRepair ==
    (Returned /\ keep_multi_blank_lines) =>
        result.text = IF EndsWithNewline(source) /\ ~EndsWithNewline(Rendered)
                      THEN Append(Rendered, NL)
                      ELSE Rendered

\* C7 as stated: collapsing leaves no blank-line run longer than a single
\* empty line, strips a leading blank-line run altogether, and keeps the
\* text unchanged when collapsing is off.
C7_AsStated ==
    Returned =>
        IF keep_multi_blank_lines THEN result.text = Repaired
        ELSE /\ ~HasLongBlank(result.text)
             /\ (StartsWithBlankLine(Repaired) /\ NonSpace(Repaired) # <<>>)
                    => ~StartsWithBlankLine(result.text)

\* C7 as amended: collapsing leaves no blank-line run longer than a single
\* empty line, leaves a blank line in a text where one followed content,
\* and leaves a text with nothing to collapse unchanged; a leading newline
\* is never stripped, and a leading run of two or more blank lines that
\* starts with an empty line is reduced to exactly one leading newline;
\* with collapsing off the text is unchanged.
C7_BlankLineCollapsing ==
    Returned =>
        IF keep_multi_blank_lines THEN result.text = Repaired
        ELSE /\ ~HasLongBlank(result.text)
             /\ HasBlankAfterContent(Repaired) => HasDoubleNewline(result.text)
             /\ (~HasLongBlank(Repaired) /\ ~StartsWith(Repaired, <<NL>>))
                    => result.text = Repaired
             /\ StartsWith(Repaired, <<NL>>) => StartsWith(result.text, <<NL>>)
             /\ LeadingRunFromNewline(Repaired) =>
                    /\ result.text[1] = NL
                    /\ Len(result.text) > 1 => result.text[2] # NL

\* a call that collapsed a leading run and a run between content
C7_Witness ==
    /\ Returned /\ ~keep_multi_blank_lines
    /\ LeadingRunFromNewline(Repaired)
    /\ HasBlankAfterContent(Repaired)
    /\ HasLongBlank(Repaired)
    /\ result.text # Repaired

\* C10: collapsing keeps the non-whitespace characters of the text, in
\* order, and collapsing its own result again changes nothing.
C10_CollapseKeepsContent ==
    (Returned /\ ~keep_multi_blank_lines) =>
        /\ NonSpace(result.text) = NonSpace(Repaired)
        /\ ReduceBlankLines(result.text) = result.text

-----------------------------------------------------------------------------
(* SpecFile: one run of main, single-file mode *)

EXTENSION == <<".", "t", "p", "l">>

\* where stdout_write sends the output
Stdout == <<"<stdout>">>

Dash == <<"-">>

\* a value Python's "not" takes for false: neither None nor the empty string
Truthy(name) == name # None /\ name # <<>>

StripExtensionShort(name) ==
    IF Len(name) >= Len(EXTENSION)
    THEN SubSeq(name, 1, Len(name) - Len(EXTENSION) + 1)
    ELSE <<>>

\* input_filename[:-len(EXTENSION)]
StripExtension(name) ==
    IF Len(name) >= Len(EXTENSION)
    THEN SubSeq(name, 1, Len(name) - Len(EXTENSION))
    ELSE <<>>

InputNames == {<<"x", ".", "t", "p", "l">>, EXTENSION, <<"x">>,
               <<"t", "p", "l">>}

OutputNames == {Dash, <<"o">>, <<"x">>, <<"x", ".", "t", "p", "l">>}

\* templates found in the input file or on stdin
FileSources == {<<"a", NL>>, <<Ref(<<"X">>)>>, <<NL, NL, Ref(<<"X">>), NL>>}

OldContent == <<"o", "l", "d">>

\* files that may exist besides the input file before the run
OtherFiles == {<<"o">>, <<"x">>}

FatalKeepTemplate == "Fatal: --keep-template only makes sense if you specify an input file"
FatalNoExtension == "Fatal: If no output filename is given, input filename must end in .tpl"
FatalEmptyOutput == "Fatal: Output filename is empty"
FatalUndefined == "Fatal: UndefinedError"
TemplateNotFound == "IOError: TemplateNotFound"
WriteError == "IOError: open"

ArgsSet ==
    [input_file : InputNames \cup {None, <<>>},
     output_file : OutputNames \cup {None, <<>>},
     allow_missing : BOOLEAN,
     keep_template : BOOLEAN,
     reduce_multi_blank_lines : BOOLEAN]

InitFile ==
    /\ pc = "main"
    /\ args \in ArgsSet
    /\ os_environ \in VariableMaps
    /\ environ0 = os_environ
    /\ variables = <<>>
    /\ \E others \in SUBSET OtherFiles, present \in BOOLEAN,
          content \in FileSources :
          LET names == others \cup
                  (IF Truthy(args.input_file) /\ present
                   THEN {args.input_file} ELSE {})
          IN fs = [n \in names |->
                      IF n = args.input_file THEN content ELSE OldContent]
    /\ fs0 = fs
    /\ stdin \in (IF Truthy(args.input_file) THEN {<<>>} ELSE FileSources)
    /\ stdout = <<>>
    /\ written = <<>>
    /\ raised = NoException
    /\ exit_code = NotExited
    /\ source = <<>>
    /\ result = NoResult
    /\ input_filename = None
    /\ output_filename = None
    /\ remove_template = FALSE
    /\ die_on_missing_variable = FALSE
    /\ keep_multi_blank_lines = FALSE
    /\ extra_variables = <<>>
    /\ context = <<>>
    /\ yielded = <<>>
    /\ prefix = <<>>
    /\ n_sets = 0
    /\ IdleWalk

\* main, lines 79-96: the call of process_file with the parsed arguments
Main ==
    /\ pc = "main"
    /\ input_filename' = args.input_file
    /\ output_filename' = args.output_file
    /\ die_on_missing_variable' = ~args.allow_missing
    /\ remove_template' = ~args.keep_template
    /\ keep_multi_blank_lines' = ~args.reduce_multi_blank_lines
    /\ variables' = [k \in DOMAIN os_environ |-> _unicodify(os_environ[k])]
    /\ pc' = "check"
    /\ UNCHANGED <<envVars, walkVars>>
    /\ UNCHANGED <<args, source, result, fs, fs0, stdin, stdout,
                   written, raised, exit_code, os_environ, environ0,
          extra_variables, context, yielded, prefix, n_sets, wargs,
          disk_dirs, disk_files, disk0_dirs, disk0_files, todo, root,
          dirs_left, files_left, processed, errors>>

\* what the checks of process_file raise, NoException when they pass
ConfigError(in, out, remove) ==
    IF ~Truthy(in) /\ ~remove THEN FatalKeepTemplate
    ELSE IF Truthy(in) /\ ~Truthy(out)
         THEN IF ~EndsWith(in, EXTENSION) THEN FatalNoExtension
              ELSE IF ~Truthy(StripExtension(in)) THEN FatalEmptyOutput
              ELSE NoException
         ELSE NoException

\* the output file name after the checks
DefaultOutput(in, out) ==
    IF Truthy(in) /\ ~Truthy(out) THEN StripExtension(in) ELSE out

\* process_file, lines 108-123
Check ==
    /\ pc = "check"
    /\ LET e == ConfigError(input_filename, output_filename, remove_template)
       IN IF e # NoException
          THEN /\ raised' = e
               /\ pc' = "raised"
               /\ UNCHANGED output_filename
          ELSE /\ output_filename' = DefaultOutput(input_filename,
                                                   output_filename)
               /\ pc' = "render"
               /\ UNCHANGED raised
    /\ UNCHANGED <<envVars, walkVars>>
    /\ UNCHANGED <<args, variables, source, result, fs, fs0, stdin, stdout,
                   written, exit_code, input_filename, remove_template,
                   die_on_missing_variable, keep_multi_blank_lines>>

\* process_file, lines 125-134: _render_file or _render_string
RenderStep ==
    /\ pc = "render"
    /\ IF Truthy(input_filename) /\ input_filename \notin DOMAIN fs
       THEN /\ raised' = TemplateNotFound
            /\ pc' = "raised"
            /\ UNCHANGED <<source, result>>
       ELSE /\ source' = IF Truthy(input_filename) THEN fs[input_filename]
                         ELSE stdin
            /\ result' = _render(source', variables, die_on_missing_variable,
                                 keep_multi_blank_lines)
            /\ IF result'.kind = "ok"
               THEN pc' = "write" /\ UNCHANGED raised
               ELSE pc' = "raised" /\ raised' = FatalUndefined
    /\ UNCHANGED <<envVars, walkVars>>
    /\ UNCHANGED <<args, variables, fs, fs0, stdin, stdout, written,
                   exit_code, input_filename, output_filename,
                   remove_template, die_on_missing_variable,
                   keep_multi_blank_lines>>

\* whether the output goes to a file
ToFile(out) == Truthy(out) /\ out # Dash

\* process_file, lines 136-140
WriteStep ==
    /\ pc = "write"
    /\ IF ToFile(output_filename)
       THEN \/ /\ fs' = [n \in DOMAIN fs \cup {output_filename} |->
                            IF n = output_filename THEN result.text
                            ELSE fs[n]]
               /\ written' = Append(written, output_filename)
               /\ pc' = "unlink"
               /\ UNCHANGED <<stdout, raised>>
            \/ \* open() fails
               /\ raised' = WriteError
               /\ pc' = "raised"
               /\ UNCHANGED <<fs, stdout, written>>
       ELSE /\ stdout' = Append(stdout, result.text)
            /\ written' = Append(written, Stdout)
            /\ pc' = "unlink"
            /\ UNCHANGED <<fs, raised>>
    /\ UNCHANGED <<envVars, walkVars>>
    /\ UNCHANGED <<args, variables, source, result, fs0, stdin, exit_code,
                   input_filename, output_filename, remove_template,
                   die_on_missing_variable, keep_multi_blank_lines>>

ShouldUnlinkAlways(in, remove) == Truthy(in)

\* the condition of line 142
ShouldUnlink(in, remove) == Truthy(in) /\ remove

\* process_file, lines 142-143
UnlinkStep ==
    /\ pc = "unlink"
    /\ IF ShouldUnlink(input_filename, remove_template)
       THEN fs' = [n \in DOMAIN fs \ {input_filename} |-> fs[n]]
       ELSE UNCHANGED fs
    /\ pc' = "returned"
    /\ UNCHANGED <<envVars, walkVars>>
    /\ UNCHANGED <<args, variables, source, result, fs0, stdin, stdout,
                   written, raised, exit_code, input_filename,
                   output_filename, remove_template,
                   die_on_missing_variable, keep_multi_blank_lines>>

\* main, lines 97-101
Exit ==
    /\ pc \in {"returned", "raised"}
    /\ exit_code' = IF pc = "raised" THEN "1" ELSE "0"
    /\ pc' = "exited"
    /\ UNCHANGED <<envVars, walkVars>>
    /\ UNCHANGED <<args, variables, source, result, fs, fs0, stdin, stdout,
                   written, raised, input_filename, output_filename,
                   remove_template, die_on_missing_variable,
                   keep_multi_blank_lines>>

NextFile == Main \/ Check \/ RenderStep \/ WriteStep \/ UnlinkStep \/ Exit

SpecFile == InitFile /\ [][NextFile]_vars

-----------------------------------------------------------------------------
(* Properties of single-file mode, under SpecFile *)

\* the run ended in a configuration or rendering error
ConfigOrRenderError ==
    raised \in {FatalKeepTemplate, FatalNoExtension, FatalEmptyOutput,
                FatalUndefined}

\* the step changes the output: a file is created or rewritten, or stdout
\* is written to
TouchesOutput ==
    \/ stdout' # stdout
    \/ \E n \in DOMAIN fs' : n \notin DOMAIN fs \/ fs'[n] # fs[n]

\* the step deletes a file
DeletesFile == \E n \in DOMAIN fs : n \notin DOMAIN fs'

\* C1: the output is touched only by the write step, after a render that
\* succeeded; a file is deleted only by the step after the write, only the
\* input template, and only without --keep-template; a run that ends in a
\* configuration or rendering error leaves every file and stdout as they
\* were.
C1_RenderWriteDelete ==
    /\ [][TouchesOutput => (pc = "write" /\ result.kind = "ok"
                            /\ written = <<>>)]_vars
    /\ [][DeletesFile => (/\ pc = "unlink"
                          /\ Len(written) = 1
                          /\ ~args.keep_template
                          /\ DOMAIN fs \ DOMAIN fs' = {args.input_file})]_vars
    /\ [](ConfigOrRenderError => (fs = fs0 /\ stdout = <<>>))

\* a run that wrote its output and then deleted the input template
C1_Witness ==
    /\ pc = "exited" /\ exit_code = "0"
    /\ Len(written) = 1
    /\ args.input_file \in DOMAIN fs0
    /\ args.input_file \notin DOMAIN fs

\* C3: with --allow-missing absent the policy is strict, and a template
\* that refers to a variable the mapping lacks ends the run in the Fatal
\* undefined-variable error with nothing written; with --allow-missing
\* the same template renders as if the variable were the empty text.
C3_UndefinedPolicy ==
    /\ pc # "main" => die_on_missing_variable = ~args.allow_missing
    /\ (result.kind # "none" /\ Missing(source, variables) # {}) =>
          IF ~args.allow_missing
          THEN /\ raised = FatalUndefined
               /\ result.kind = "Fatal"
               /\ written = <<>> /\ fs = fs0 /\ stdout = <<>>
          ELSE /\ result.kind = "ok"
               /\ raised \in {NoException, WriteError}
               /\ result.text =
                     _render(source, [n \in VarNames |-> <<>>], TRUE,
                             keep_multi_blank_lines).text

\* a strict run that died on a missing variable
C3_Witness ==
    /\ pc = "exited" /\ exit_code = "1"
    /\ ~args.allow_missing
    /\ Missing(source, variables) # {}
    /\ raised = FatalUndefined

\* the name that, followed by ".tpl", gives the input file name
Stem(in) == CHOOSE n \in SeqsUpTo({"x", ".", "t", "p", "l"}, Len(in)) :
                n \o EXTENSION = in

NoOutputGiven(out) == out = None \/ out = <<>>

-----------------------------------------------------------------------------
(* SpecEnv: render_string's variable collection, and environment() *)

\* a function object (a template global, a helper)
Callable == <<"<callable>">>

NeverCallable(v) == FALSE

\* callable(value)
IsCallable(v) == v = Callable

\* ord() of the characters variable names are made of
Ord == ("A" :> 65) @@ ("B" :> 66) @@ ("_" :> 95) @@ ("a" :> 97)
       @@ ("e" :> 101) @@ ("g" :> 103) @@ ("i" :> 105) @@ ("m" :> 109)
       @@ ("n" :> 110) @@ ("o" :> 111) @@ ("r" :> 114) @@ ("t" :> 116)
       @@ ("v" :> 118)

\* Python's < on strings
RECURSIVE StrLess(_, _)
StrLess(a, b) ==
    IF b = <<>> THEN FALSE
    ELSE IF a = <<>> THEN TRUE
    ELSE IF a[1] # b[1] THEN Ord[a[1]] < Ord[b[1]]
    ELSE StrLess(Tail(a), Tail(b))

\* sorted(...) of a set of keys
RECURSIVE SortedKeys(_)
SortedKeys(keys) ==
    IF keys = {} THEN <<>>
    ELSE LET least == CHOOSE k \in keys :
                          \A other \in keys \ {k} : StrLess(k, other)
         IN <<least>> \o SortedKeys(keys \ {least})

\* the generator get_environment(context, prefix), run to its end
RECURSIVE YieldFrom(_, _, _)
YieldFrom(keys, ctx, p) ==
    IF keys = <<>> THEN <<>>
    ELSE LET key == Head(keys)
             value == ctx[key]
         IN (IF ~IsCallable(value) /\ StartsWith(key, p)
             THEN <<<<SubSeq(key, Len(p) + 1, Len(key)), value>>>>
             ELSE <<>>)
            \o YieldFrom(Tail(keys), ctx, p)

get_environment(ctx, p) == YieldFrom(SortedKeys(DOMAIN ctx), ctx, p)

\* for (key, value) in extra_variables.items(): variables[key] = value
RECURSIVE AssignAll(_, _, _)
AssignAll(vs, extra, keys) ==
    IF keys = {} THEN vs
    ELSE LET key == CHOOSE k \in keys : TRUE
             assigned == [k \in DOMAIN vs \cup {key} |->
                             IF k = key THEN extra[key] ELSE vs[k]]
         IN AssignAll(assigned, extra, keys \ {key})

CollectAliased(environ, extra) ==
    LET merged == AssignAll(environ, extra, DOMAIN extra)
    IN [variables |-> merged, environ |-> merged]

\* render_string, lines 173-175: the mapping built, and the process
\* environment afterwards
Collect(environ, extra) ==
    LET copy == [k \in DOMAIN environ |-> _unicodify(environ[k])]
    IN [variables |-> AssignAll(copy, extra, DOMAIN extra),
        environ |-> environ]

\* the globals a template sees besides its variables
Globals ==
    (<<"r", "a", "n", "g", "e">> :> Callable)
    @@ (<<"e", "n", "v", "i", "r", "o", "n", "m", "e", "n", "t">> :> Callable)

\* the context template.render(**variables) starts from: the variables
\* over the globals
NewContext(vs) ==
    [k \in DOMAIN Globals \cup DOMAIN vs |->
        IF k \in DOMAIN vs THEN vs[k] ELSE Globals[k]]

EnvKeys == {<<"A">>, <<"A", "B">>, <<"A", "_">>, <<"B">>}

EnvValues == {<<"1">>, <<"2">>}

ExtraKeys == {<<"A">>, <<"A", "a">>}

ExtraValues == {<<"3">>, Callable}

SetKeys == {<<"A", "A">>, <<"B">>}

SetValue == <<"9">>

Prefixes == {<<>>, <<"A">>, <<"A", "B">>, <<"B">>, <<"a">>}

Mappings(keys, values) == UNION {[d -> values] : d \in SUBSET keys}

InitEnv ==
    /\ pc = "render_string"
    /\ os_environ \in Mappings(EnvKeys, EnvValues)
    /\ environ0 = os_environ
    /\ extra_variables \in Mappings(ExtraKeys, ExtraValues)
    /\ context = <<>>
    /\ yielded = <<>>
    /\ prefix = <<>>
    /\ n_sets = 0
    /\ variables = <<>>
    /\ source = <<>>
    /\ die_on_missing_variable = TRUE
    /\ keep_multi_blank_lines = TRUE
    /\ result = NoResult
    /\ IdleFile /\ IdleWalk

\* render_string, lines 169-179, up to the start of template.render
RenderString ==
    /\ pc = "render_string"
    /\ LET c == Collect(os_environ, extra_variables)
       IN /\ variables' = c.variables
          /\ os_environ' = c.environ
          /\ context' = NewContext(c.variables)
    /\ pc' = "template"
    /\ UNCHANGED <<environ0, extra_variables, yielded, prefix, n_sets>>
    /\ UNCHANGED <<source, die_on_missing_variable, keep_multi_blank_lines,
                   result>>
    /\ UNCHANGED <<fileVars, walkVars>>

\* the template calls environment(p) and iterates over the result
CallEnvironment ==
    /\ pc \in {"template", "called"}
    /\ \E p \in Prefixes :
          /\ prefix' = p
          /\ yielded' = get_environment(context, p)
    /\ pc' = "called"
    /\ UNCHANGED <<os_environ, environ0, extra_variables, context, n_sets>>
    /\ UNCHANGED <<renderVars, fileVars, walkVars>>

\* the template assigns a variable ({% set key = value %}), which
\* context.items() then shows
TemplateSet ==
    /\ pc \in {"template", "called"}
    /\ n_sets < MaxSets
    /\ \E key \in SetKeys :
          context' = [k \in DOMAIN context \cup {key} |->
                         IF k = key THEN SetValue ELSE context[k]]
    /\ n_sets' = n_sets + 1
    /\ pc' = "template"
    /\ UNCHANGED <<os_environ, environ0, extra_variables, yielded, prefix>>
    /\ UNCHANGED <<renderVars, fileVars, walkVars>>

NextEnv == RenderString \/ CallEnvironment \/ TemplateSet

SpecEnv == InitEnv /\ [][NextEnv]_vars

-----------------------------------------------------------------------------
(* Properties of the variable collection and of environment(), under     *)
(* SpecEnv                                                                 *)

\* the entries environment(prefix) is to show
Selected ==
    {k \in DOMAIN context : StartsWith(k, prefix) /\ context[k] # Callable}

\* C8: environment(prefix) yields exactly the entries of the current
\* mapping whose key starts with prefix and whose value is not callable,
\* each once, as (key without the prefix, value), in ascending order of
\* the original key.
C8_EnvironmentHelper ==
    pc = "called" =>
        /\ Len(yielded) = Cardinality(Selected)
        /\ \A i \in 1..Len(yielded) :
              /\ prefix \o yielded[i][1] \in Selected
              /\ yielded[i][2] = context[prefix \o yielded[i][1]]
        /\ \A i, j \in 1..Len(yielded) :
              i < j => StrLess(prefix \o yielded[i][1],
                               prefix \o yielded[j][1])

\* a second call, after the template changed the mapping, that yields two
\* entries or more and leaves a callable and a non-matching key out
C8_Witness ==
    /\ pc = "called"
    /\ n_sets > 0
    /\ prefix # <<>>
    /\ Len(yielded) >= 2
    /\ \E k \in DOMAIN context : StartsWith(k, prefix) /\ context[k] = Callable
    /\ \E k \in DOMAIN context : ~StartsWith(k, prefix)

\* C9: the mapping render_string gives the renderer has the keys of the
\* environment and of extra_variables; a key of extra_variables carries
\* the extra value, any other key its environment value; the process
\* environment is as it was before the call.
C9_VariableCollection ==
    pc # "render_string" =>
        /\ DOMAIN variables = DOMAIN environ0 \cup DOMAIN extra_variables
        /\ \A k \in DOMAIN variables :
              variables[k] = IF k \in DOMAIN extra_variables
                             THEN extra_variables[k] ELSE environ0[k]
        /\ os_environ = environ0

\* a call where an extra variable overrides an environment variable and
\* another environment variable is kept
C9_Witness ==
    /\ pc = "template"
    /\ \E k \in DOMAIN extra_variables :
          k \in DOMAIN environ0 /\ extra_variables[k] # environ0[k]
    /\ \E k \in DOMAIN environ0 : k \notin DOMAIN extra_variables
    /\ \E k \in DOMAIN extra_variables : k \notin DOMAIN environ0

-----------------------------------------------------------------------------
(* SpecWalk: one run of renvtpl's main.  Paths are absolute, as sequences  *)
(* of components; <<>> is the file system's root.                          *)

SourceDir == <<"s">>

TargetDir == <<"t">>

Parent(path) == SubSeq(path, 1, Len(path) - 1)

BaseName(path) == path[Len(path)]

Ancestors(path) == {SubSeq(path, 1, k) : k \in 0..Len(path)}

\* what a binary file holds, and the byte content sniffing goes by
NUL == "\\0"

BinaryData == <<"P", "N", "G", NUL>>

\* binaryornot's content sniffing, given the file's bytes
is_binary(data) == \E i \in 1..Len(data) : data[i] = NUL

\* str.split(sep)
RECURSIVE Split(_, _)
Split(str, sep) ==
    IF \A i \in 1..Len(str) : str[i] # sep THEN <<str>>
    ELSE LET i == CHOOSE k \in 1..Len(str) :
                      str[k] = sep /\ \A m \in 1..(k - 1) : str[m] # sep
         IN <<SubSeq(str, 1, i - 1)>>
            \o Split(SubSeq(str, i + 1, Len(str)), sep)

\* whether the dict comprehension of lines 105-106 raises IndexError
ExtraVarError(extra_var) ==
    \E i \in 1..Len(extra_var) : Len(Split(extra_var[i], ",")) < 2

\* {x.split(',')[0]: x.split(',')[1] for x in args.extra_var}
RECURSIVE ExtraVariables(_)
ExtraVariables(extra_var) ==
    IF extra_var = <<>> THEN <<>>
    ELSE LET before == ExtraVariables(SubSeq(extra_var, 1, Len(extra_var) - 1))
             fields == Split(extra_var[Len(extra_var)], ",")
         IN [k \in DOMAIN before \cup {fields[1]} |->
                IF k = fields[1] THEN fields[2] ELSE before[k]]

\* os.makedirs(path), as mkdir_p judges it: the directories afterwards,
\* and whether mkdir_p returns True
mkdir_p(dirs, files, path) ==
    IF path \in dirs THEN [ok |-> TRUE, dirs |-> dirs]
    ELSE IF \E a \in Ancestors(path) : a \in DOMAIN files
         THEN [ok |-> FALSE, dirs |-> dirs]
         ELSE [ok |-> TRUE, dirs |-> dirs \cup Ancestors(path)]

\* the entries of a directory
SubDirs(dirs, dir) == {p \in dirs : p # <<>> /\ Parent(p) = dir}

FilesIn(files, dir) == {p \in DOMAIN files : Parent(p) = dir}

\* the orders a directory listing may come in
Orders(S) ==
    {o \in [1..Cardinality(S) -> S] :
        \A i, j \in 1..Cardinality(S) : i # j => o[i] # o[j]}

\* lines 84-88
target_root(walk_root, source_directory, target_directory) ==
    IF walk_root = source_directory THEN target_directory
    ELSE target_directory
         \o SubSeq(walk_root, Len(source_directory) + 1, Len(walk_root))

\* where shutil.copy(source, target) puts the copy
CopyDestination(dirs, source_path, target) ==
    IF target \in dirs THEN target \o <<BaseName(source_path)>> ELSE target

WriteFile(files, path, data) ==
    [p \in DOMAIN files \cup {path} |-> IF p = path THEN data ELSE files[p]]

OnErrorContinue == "loop"

\* an exception of the loop body is not caught: it ends the walk
OnError == "raised"

\* ---- the runs considered

TextA == <<"a", NL>>

TextX == <<Ref(<<"X">>), NL>>

\* the files of the source tree: each slot is absent or holds one of these
SlotF == <<"s", "f">>
SlotG == <<"s", "g">>
SlotDF == <<"s", "d", "f">>
SlotDEF == <<"s", "d", "e", "f">>

SourceTrees ==
    {[dirs |-> ds, files |-> fl] :
        ds \in {{SourceDir}, {SourceDir, <<"s", "d">>},
                {SourceDir, <<"s", "d">>, <<"s", "d", "e">>}},
        fl \in UNION {[slots -> {BinaryData, TextA, TextX}] :
                         slots \in SUBSET {SlotF, SlotG, SlotDF, SlotDEF}}}

WellFormed(tree) ==
    /\ \A p \in DOMAIN tree.files : Parent(p) \in tree.dirs
    /\ SlotDEF \in DOMAIN tree.files => tree.files[SlotDEF] = TextA
    /\ SlotDF \in DOMAIN tree.files => tree.files[SlotDF] # TextA

\* what the target directory may look like before the run
TargetStates ==
    {[dirs |-> {}, files |-> <<>>],
     [dirs |-> {TargetDir}, files |-> <<>>],
     [dirs |-> {}, files |-> (TargetDir :> OldContent)],
     [dirs |-> {TargetDir, <<"t", "d">>}, files |-> <<>>],
     [dirs |-> {TargetDir}, files |-> (<<"t", "d">> :> OldContent)],
     [dirs |-> {TargetDir, <<"t", "f">>}, files |-> <<>>],
     [dirs |-> {TargetDir}, files |-> (<<"t", "f">> :> OldContent)]}

ExtraVarArgs ==
    {<<>>,
     <<<<"X", ",", "b">>>>,
     <<<<"X", ",", "b", ",", "c">>>>,
     <<<<"X">>>>}

InitWalk ==
    /\ pc = "main"
    /\ wargs \in [SOURCE_DIRECTORY : {SourceDir, <<"s", "f">>},
                  TARGET_DIRECTORY : {TargetDir},
                  die_on_missing : BOOLEAN,
                  extra_var : ExtraVarArgs]
    /\ \E tree \in SourceTrees, target \in TargetStates :
          /\ WellFormed(tree)
          /\ disk_dirs = {<<>>} \cup tree.dirs \cup target.dirs
          /\ disk_files = tree.files @@ target.files
    /\ wargs.SOURCE_DIRECTORY = <<"s", "f">> =>
          /\ disk_dirs = {<<>>, SourceDir}
          /\ DOMAIN disk_files = {SlotF}
          /\ ~wargs.die_on_missing /\ wargs.extra_var = <<>>
    /\ disk0_dirs = disk_dirs
    /\ disk0_files = disk_files
    /\ os_environ \in {<<>>, [n \in VarNames |-> <<"a">>]}
    /\ environ0 = os_environ
    /\ todo = <<>>
    /\ root = <<>>
    /\ dirs_left = <<>>
    /\ files_left = <<>>
    /\ processed = <<>>
    /\ errors = <<>>
    /\ exit_code = NotExited
    /\ extra_variables = <<>>
    /\ context = <<>>
    /\ yielded = <<>>
    /\ prefix = <<>>
    /\ n_sets = 0
    /\ variables = <<>>
    /\ source = <<>>
    /\ die_on_missing_variable = FALSE
    /\ keep_multi_blank_lines = TRUE
    /\ result = NoResult
    /\ args = NoArgs
    /\ input_filename = None
    /\ output_filename = None
    /\ remove_template = FALSE
    /\ fs = <<>>
    /\ fs0 = <<>>
    /\ stdin = <<>>
    /\ stdout = <<>>
    /\ written = <<>>
    /\ raised = NoException

walkFrame == <<source, variables, die_on_missing_variable,
               keep_multi_blank_lines, result, args, input_filename,
               output_filename, remove_template, fs, fs0, stdin, stdout,
               written, raised, os_environ, environ0, extra_variables,
               context, yielded, prefix, n_sets, wargs, disk0_dirs,
               disk0_files>>

\* main, lines 75-82
WalkMain ==
    /\ pc = "main"
    /\ IF wargs.SOURCE_DIRECTORY \notin disk_dirs
       THEN /\ errors' = Append(errors, "ERROR: not a directory")
            /\ exit_code' = "1"
            /\ pc' = "exited"
            /\ UNCHANGED <<disk_dirs, todo>>
       ELSE LET made == mkdir_p(disk_dirs, disk_files,
                                wargs.TARGET_DIRECTORY)
            IN IF ~made.ok
               THEN /\ errors' = Append(errors, "ERROR: can't create")
                    /\ exit_code' = "1"
                    /\ pc' = "exited"
                    /\ UNCHANGED <<disk_dirs, todo>>
               ELSE /\ disk_dirs' = made.dirs
                    /\ todo' = <<wargs.SOURCE_DIRECTORY>>
                    /\ pc' = "loop"
                    /\ UNCHANGED <<errors, exit_code>>
    /\ UNCHANGED <<disk_files, root, dirs_left, files_left, processed>>
    /\ UNCHANGED walkFrame

\* line 83: os.walk yields the next directory, top down
WalkNext ==
    /\ pc = "loop"
    /\ dirs_left = <<>> /\ files_left = <<>>
    /\ todo # <<>>
    /\ root' = Head(todo)
    /\ \E ds \in Orders(SubDirs(disk_dirs, Head(todo))),
          fl \in Orders(FilesIn(disk_files, Head(todo))) :
          /\ dirs_left' = ds
          /\ files_left' = fl
          /\ todo' = ds \o Tail(todo)
    /\ UNCHANGED <<pc, disk_dirs, disk_files, processed, errors, exit_code>>
    /\ UNCHANGED walkFrame

\* lines 89-93: one turn of the loop over dirs
MakeDir ==
    /\ pc = "loop"
    /\ dirs_left # <<>>
    /\ LET tmp == target_root(root, wargs.SOURCE_DIRECTORY,
                              wargs.TARGET_DIRECTORY)
                  \o <<BaseName(Head(dirs_left))>>
           made == mkdir_p(disk_dirs, disk_files, tmp)
       IN IF made.ok
          THEN /\ disk_dirs' = made.dirs
               /\ UNCHANGED <<pc, errors>>
          ELSE /\ errors' = Append(errors, "Exception: can't create directory")
               /\ pc' = OnError
               /\ UNCHANGED disk_dirs
    /\ dirs_left' = Tail(dirs_left)
    /\ UNCHANGED <<disk_files, todo, root, files_left, processed, exit_code>>
    /\ UNCHANGED walkFrame

\* lines 94-110: one turn of the loop over files
ProcessFile ==
    /\ pc = "loop"
    /\ dirs_left = <<>> /\ files_left # <<>>
    /\ LET source_path == Head(files_left)
           target == target_root(root, wargs.SOURCE_DIRECTORY,
                                 wargs.TARGET_DIRECTORY)
                     \o <<BaseName(source_path)>>
           data == disk_files[source_path]
       IN IF is_binary(data)
          THEN LET dst == CopyDestination(disk_dirs, source_path, target)
               IN IF dst \in disk_dirs
                  THEN /\ errors' = Append(errors, "IsADirectoryError")
                       /\ pc' = OnError
                       /\ UNCHANGED disk_files
                  ELSE /\ disk_files' = WriteFile(disk_files, dst, data)
                       /\ UNCHANGED <<pc, errors>>
          ELSE IF target \in disk_dirs
               THEN /\ errors' = Append(errors, "IsADirectoryError")
                    /\ pc' = OnError
                    /\ UNCHANGED disk_files
               ELSE IF ExtraVarError(wargs.extra_var)
                    THEN /\ disk_files' = WriteFile(disk_files, target, <<>>)
                         /\ errors' = Append(errors, "IndexError")
                         /\ pc' = OnError
                    ELSE LET c == Collect(os_environ,
                                     ExtraVariables(wargs.extra_var))
                             newc == _render(data, c.variables,
                                            wargs.die_on_missing, TRUE)
                         IN IF newc.kind = "ok"
                            THEN /\ disk_files' =
                                      WriteFile(disk_files, target, newc.text)
                                 /\ UNCHANGED <<pc, errors>>
                            ELSE /\ disk_files' =
                                      WriteFile(disk_files, target, <<>>)
                                 /\ errors' = Append(errors, "Fatal")
                                 /\ pc' = OnError
    /\ processed' = Append(processed, Head(files_left))
    /\ files_left' = Tail(files_left)
    /\ UNCHANGED <<disk_dirs, todo, root, dirs_left, exit_code>>
    /\ UNCHANGED walkFrame

\* the walk is over, or an exception reached the top: the process ends
WalkExit ==
    /\ \/ pc = "raised"
       \/ pc = "loop" /\ todo = <<>> /\ dirs_left = <<>> /\ files_left = <<>>
    /\ exit_code' = IF pc = "raised" THEN "1" ELSE "0"
    /\ pc' = "exited"
    /\ UNCHANGED <<disk_dirs, disk_files, todo, root, dirs_left, files_left,
                   processed, errors>>
    /\ UNCHANGED walkFrame

NextWalk == WalkMain \/ WalkNext \/ MakeDir \/ ProcessFile \/ WalkExit

SpecWalk == InitWalk /\ [][NextWalk]_vars

-----------------------------------------------------------------------------
(* Properties of the directory walker, under SpecWalk *)

UnderSource(path) ==
    /\ Len(path) > Len(SourceDir)
    /\ SubSeq(path, 1, Len(SourceDir)) = SourceDir

\* the path of the target tree that corresponds to a path of the source tree
TargetOf(path) == TargetDir \o SubSeq(path, Len(SourceDir) + 1, Len(path))

SourceFiles == {p \in DOMAIN disk0_files : UnderSource(p)}

\* what the target file of a source file is to hold
Mirrored(data) ==
    IF is_binary(data) THEN data
    ELSE _render(data,
                Collect(environ0, ExtraVariables(wargs.extra_var)).variables,
                wargs.die_on_missing, TRUE).text

Completed == pc = "exited" /\ exit_code = "0"

\* C5: after a walk that completes without error every directory of the
\* source tree has its target directory, and every source file has a
\* target file at the same relative path that holds the source's bytes
\* (binary) or its rendering (text).
C5_MirrorOnCompletion ==
    Completed =>
        /\ \A d \in disk0_dirs : UnderSource(d) => TargetOf(d) \in disk_dirs
        /\ \A p \in SourceFiles :
              /\ TargetOf(p) \in DOMAIN disk_files
              /\ disk_files[TargetOf(p)] = Mirrored(disk0_files[p])

\* the mirror property, for the runs whose target holds no directory where
\* a source file is to go
MirrorUnlessDirectoryInTheWay ==
    (\A p \in SourceFiles : TargetOf(p) \notin disk0_dirs)
        => C5_MirrorOnCompletion

\* the step fails: it reports the run's first error
Fails == errors = <<>> /\ errors' # <<>>

Unprocessed ==
    {p \in SourceFiles : \A i \in 1..Len(processed) : processed[i] # p}

SameFile(files1, files2, path) ==
    /\ path \in DOMAIN files1 <=> path \in DOMAIN files2
    /\ path \in DOMAIN files1 => files1[path] = files2[path]

\* C6: once an error is reported the walk does nothing more to the disk,
\* handles no further file and reports no further error; the target of a
\* source file the walk did not reach is as it was before the run; the
\* failing step removes nothing and changes no file but the target of the
\* file it failed on.
C6_StopsAtFirstError ==
    /\ [][errors # <<>> => /\ disk_files' = disk_files
                           /\ disk_dirs' = disk_dirs
                           /\ processed' = processed
                           /\ errors' = errors]_vars
    /\ [](Len(errors) <= 1)
    /\ [](errors # <<>> =>
            \A p \in Unprocessed :
                /\ SameFile(disk_files, disk0_files, TargetOf(p))
                /\ SameFile(disk_files, disk0_files,
                            TargetOf(p) \o <<BaseName(p)>>))
    /\ [][Fails => /\ disk_dirs \subseteq disk_dirs'
                   /\ \A p \in DOMAIN disk_files :
                         \/ SameFile(disk_files', disk_files, p)
                         \/ /\ processed' # processed
                            /\ p = TargetOf(processed'[Len(processed')])
                            /\ p \in DOMAIN disk_files']_vars

\* a walk that wrote a file, then failed on another, with a file left
C6_Witness ==
    /\ pc = "exited" /\ exit_code = "1"
    /\ errors = <<"Fatal">>
    /\ Len(processed) >= 2
    /\ Unprocessed # {}
    /\ \E p \in DOMAIN disk_files : p \notin DOMAIN disk0_files
                                    /\ disk_files[p] # <<>>

====
